---- MODULE Spec2Model ----
(***************************************************************************)
(* A model of capnez's schema generator (codegen/src/lib.rs): the          *)
(* attribute scan, the type mapper, the dependency resolver and the        *)
(* schema emitter.                                                         *)
(*                                                                         *)
(* Four specifications share the module's variables:                       *)
(*   SpecSort  sort_deps applied to a list of mapped records;              *)
(*   SpecAttr  the attribute loop of has_serialization_attr;               *)
(*   Spec      generate_schema: the scan of the items of the source files, *)
(*             then the emission of the schema text; the build script is   *)
(*             called a second time, on the same or on edited sources.     *)
(*   SpecCall  map_ty, mk_enum and to_camel_case, each called on its own.  *)
(* A specification leaves the variables of the others at their initial     *)
(* values.                                                                 *)
(***************************************************************************)
EXTENDS Integers, Sequences, FiniteSets, TLC

VARIABLES
    pc,          \* where the modelled function stands
    items,       \* sort_deps: its argument, the records in insertion order
    order,       \* sort_deps: the Vec it returned
    attrs,       \* has_serialization_attr: its argument
    attr_i,      \* has_serialization_attr: attributes the loop has gone through
    has_capnp,   \* has_serialization_attr: local has_capnp
    has_serde,   \* has_serialization_attr: local has_serde
    file,        \* generate_schema: the items scanned so far, in scan order
    structs,     \* generate_schema: local structs
    enums,       \* generate_schema: local enums
    interfaces,  \* generate_schema: local interfaces
    schema,      \* generate_schema: local schema, the text as pieces
    disk,        \* the content of schema.capnp, if the file exists
    run,         \* how the build script was called: "first", "again", "edited"
    src,         \* a later call: the items of the sources ahead of the scan
    call,        \* a function called on its own: its name and arguments
    returned     \* what the call returned, once it has

vars == <<pc, items, order, attrs, attr_i, has_capnp, has_serde,
          file, structs, enums, interfaces, schema, disk, run, src,
          call, returned>>

sortVars == <<items, order>>
attrVars == <<attrs, attr_i, has_capnp, has_serde>>
genVars  == <<file, structs, enums, interfaces, schema, disk, run, src>>
callVars == <<call, returned>>

(***************************************************************************)
(* Bounds.                                                                 *)
(***************************************************************************)
\* Size of a list of records: one per record, one per field, one per
\* List/Optional wrapper around a field's type.
MaxSize == 5

\* Names a record can carry and a field can refer to.
StructNames == {"A", "B", "C"}

\* Attributes on one declaration.
MaxAttrs == 2

\* Size of the scanned source: two per item, one per field, variant, method
\* or return type, one per leaf type and per container around it.
MaxFileSize == 5

(***************************************************************************)
(* CapnpType (codegen/src/lib.rs:14-21).                                   *)
(***************************************************************************)
Primitive(p) == [tag |-> "Primitive", name |-> p]
Struct(n)    == [tag |-> "Struct", name |-> n]
SerdeOnly(n) == [tag |-> "SerdeOnly", name |-> n]
List(t)      == [tag |-> "List", inner |-> t]
Optional(t)  == [tag |-> "Optional", inner |-> t]

\* Option<T>: <<>> is None, <<v>> is Some(v).
None    == <<>>
Some(v) == <<v>>

(***************************************************************************)
(* get_struct_name: the record a field's type depends on, if any.          *)
(***************************************************************************)
RECURSIVE UnwrapLists(_)
UnwrapLists(ty) ==
    IF ty.tag = "List" THEN UnwrapLists(ty.inner) ELSE ty

get_struct_name_skip_lists(ty) ==
    IF ty.tag = "Struct" THEN Some(ty.name) ELSE None

get_struct_name_any_name(ty) ==
    CASE ty.tag \in {"Struct", "SerdeOnly"} -> Some(ty.name)
      [] ty.tag = "List" ->
            LET inner_ty == UnwrapLists(ty.inner)
            IN  IF inner_ty.tag \in {"Struct", "SerdeOnly"}
                THEN Some(inner_ty.name) ELSE None
      [] OTHER -> None

get_struct_name(ty) ==
    CASE ty.tag = "Struct" -> Some(ty.name)
      [] ty.tag = "List" ->
            LET inner_ty == UnwrapLists(ty.inner)
            IN  IF inner_ty.tag = "Struct" THEN Some(inner_ty.name) ELSE None
      [] OTHER -> None

(***************************************************************************)
(* sort_deps: depth-first visit of the records in insertion order; a       *)
(* record is pushed after the records its fields name.                     *)
(***************************************************************************)
find_last(its, name) ==
    IF \E i \in 1..Len(its) : its[i].name = name
    THEN CHOOSE i \in 1..Len(its) :
            /\ its[i].name = name
            /\ \A j \in (i + 1)..Len(its) : its[j].name # name
    ELSE 0

\* items.iter().find(|x| x.name == name): index of the first match, 0 if none.
find(its, name) ==
    IF \E i \in 1..Len(its) : its[i].name = name
    THEN CHOOSE i \in 1..Len(its) :
            /\ its[i].name = name
            /\ \A j \in 1..(i - 1) : its[j].name # name
    ELSE 0

push_front(ord, s) == <<s>> \o ord

\* order.push(s)
push(ord, s) == Append(ord, s)

RECURSIVE visit(_, _, _, _), visit_fields(_, _, _, _, _)
\* visit(s, items, seen, order): the updated seen and order.  order holds
\* the records themselves (references into items).
visit(s, its, seen, ord) ==
    IF s.name \in seen
    THEN [seen |-> seen, order |-> ord]
    ELSE LET r == visit_fields(s, 1, its, seen \cup {s.name}, ord)
         IN  [seen |-> r.seen, order |-> push(r.order, s)]

\* The loop over s.fields, from field i on.
visit_fields(s, i, its, seen, ord) ==
    IF i > Len(s.fields)
    THEN [seen |-> seen, order |-> ord]
    ELSE LET name == get_struct_name(s.fields[i].ty)
             dep  == IF name = None THEN 0 ELSE find(its, name[1])
             r    == IF dep = 0
                     THEN [seen |-> seen, order |-> ord]
                     ELSE visit(its[dep], its, seen, ord)
         IN  visit_fields(s, i + 1, its, r.seen, r.order)

RECURSIVE sort_loop(_, _, _, _)
sort_loop(its, i, seen, ord) ==
    IF i > Len(its)
    THEN ord
    ELSE LET r == visit(its[i], its, seen, ord)
         IN  sort_loop(its, i + 1, r.seen, r.order)

sort_deps_from_first(its) ==
    IF its = <<>> THEN <<>> ELSE visit(its[1], its, {}, <<>>).order

sort_deps_resolved(its) ==
    SelectSeq(sort_loop(its, 1, {}, <<>>),
              LAMBDA s : \A k \in 1..Len(s.fields) :
                            LET name == get_struct_name(s.fields[k].ty)
                            IN  name = None \/ find(its, name[1]) # 0)

sort_deps(its) == sort_loop(its, 1, {}, <<>>)

(***************************************************************************)
(* The records sort_deps is applied to: what mk_struct builds, field k     *)
(* carrying id k (zero-based).                                             *)
(***************************************************************************)
LeafTypes ==
    {Primitive("Text"), SerdeOnly("A")} \cup {Struct(n) : n \in StructNames}

RECURSIVE TypesOfSize(_)
\* The types with k - 1 wrappers.
TypesOfSize(k) ==
    IF k = 1 THEN LeafTypes
    ELSE {List(t) : t \in TypesOfSize(k - 1)}
         \cup {Optional(t) : t \in TypesOfSize(k - 1)}

FieldNames == <<"f0", "f1", "f2", "f3", "f4", "f5", "f6", "f7">>

RECURSIVE FieldsOfSize(_, _)
\* The field lists of size k whose first field is at position pos.
FieldsOfSize(k, pos) ==
    IF k = 0 THEN {<<>>}
    ELSE UNION {
           {<<[name |-> FieldNames[pos + 1], id |-> pos, ty |-> t]>> \o rest :
               t \in TypesOfSize(c), rest \in FieldsOfSize(k - c, pos + 1)}
           : c \in 1..k}

RECURSIVE StructLists(_, _)
\* The lists of records of size at most k, named out of names; two records
\* of a list may carry the same name.
StructLists(k, names) ==
    {<<>>} \cup
    UNION {
      UNION {
        {<<[name |-> n, fields |-> fs, has_serde |-> FALSE]>> \o rest :
            fs \in FieldsOfSize(c, 0),
            rest \in StructLists(k - 1 - c, names)}
        : c \in 0..(k - 1)}
      : n \in names}

(***************************************************************************)
(* SpecSort.                                                               *)
(***************************************************************************)
AttrIdle == attrs = <<>> /\ attr_i = 0 /\ has_capnp = FALSE /\ has_serde = FALSE
GenIdle  == /\ file = <<>> /\ structs = <<>> /\ enums = <<>>
            /\ interfaces = <<>> /\ schema = <<>>
            /\ disk = <<>> /\ run = "first" /\ src = <<>>
SortIdle == items = <<>> /\ order = <<>>
CallIdle == call = <<>> /\ returned = <<>>

InitSort ==
    /\ pc = "sort"
    /\ \/ items = <<>>
       \/ \E c \in 0..(MaxSize - 1) :
             \E n \in StructNames, fs \in FieldsOfSize(c, 0),
                rest \in StructLists(MaxSize - 1 - c, StructNames) :
                items = <<[name |-> n, fields |-> fs, has_serde |-> FALSE]>> \o rest
    /\ order = <<>>
    /\ AttrIdle
    /\ GenIdle
    /\ CallIdle

SortDeps ==
    /\ pc = "sort"
    /\ order' = sort_deps(items)
    /\ pc' = "sorted"
    /\ UNCHANGED <<items, attrVars, genVars, callVars>>

NextSort == SortDeps

SpecSort == InitSort /\ [][NextSort]_vars

(***************************************************************************)
(* The reference graph of a list of records, as the claims speak of it.    *)
(***************************************************************************)
Declared(its) == {its[i].name : i \in 1..Len(its)}

DistinctNames(its) ==
    \A i, j \in 1..Len(its) : its[i].name = its[j].name => i = j

\* Position of the first record named n in ord, 0 if there is none.
Pos(ord, n) == find(ord, n)

RECURSIVE ListTarget(_), AnyTarget(_), OptTarget(_)
\* The record named directly or under List wrappers only.
ListTarget(ty) ==
    CASE ty.tag = "Struct" -> {ty.name}
      [] ty.tag = "List" -> ListTarget(ty.inner)
      [] OTHER -> {}

\* The record named under any nesting of List and Optional wrappers.
AnyTarget(ty) ==
    CASE ty.tag = "Struct" -> {ty.name}
      [] ty.tag \in {"List", "Optional"} -> AnyTarget(ty.inner)
      [] OTHER -> {}

\* The record named under a nesting that holds at least one Optional.
OptTarget(ty) ==
    CASE ty.tag = "Optional" -> AnyTarget(ty.inner)
      [] ty.tag = "List" -> OptTarget(ty.inner)
      [] OTHER -> {}

\* Edges R -> D between declared records; Target is one of the above.
Targets(s, Target(_)) ==
    UNION {Target(s.fields[k].ty) : k \in 1..Len(s.fields)}

Edges(its, Target(_)) ==
    UNION {{<<its[i].name, d>> : d \in Targets(its[i], Target) \cap Declared(its)}
           : i \in 1..Len(its)}

RECURSIVE Reach(_, _)
\* The names reachable from the set S along E, S included.
Reach(E, S) ==
    LET T == S \cup {e[2] : e \in {x \in E : x[1] \in S}}
    IN  IF T = S THEN S ELSE Reach(E, T)

HasCycle(E) == \E e \in E : e[1] \in Reach(E, {e[2]})

Before(ord, d, r) == Pos(ord, d) > 0 /\ Pos(ord, r) > 0 /\ Pos(ord, d) < Pos(ord, r)

\* Every record R with a field whose Target is a declared record D has D
\* strictly before it in ord.
DepsFirst(its, ord, Target(_)) ==
    \A i \in 1..Len(its) : \A k \in 1..Len(its[i].fields) :
        \A d \in Target(its[i].fields[k].ty) \cap Declared(its) :
            Before(ord, d, its[i].name)

(***************************************************************************)
(* Claims on the dependency resolver (SpecSort).                           *)
(***************************************************************************)
\* C1: for records with distinct names and no reference cycle, sort_deps
\* returns an order in which every declared record D named by a field of R,
\* directly or under List wrappers of any depth, is strictly before R.
C1_ListDepsFirst ==
    (pc = "sorted" /\ DistinctNames(items) /\ ~HasCycle(Edges(items, ListTarget)))
        => DepsFirst(items, order, ListTarget)

\* C1 witness: sort_deps has returned for an acyclic list in which a record
\* names, under two List wrappers, a record inserted after it.
C1_Witness ==
    /\ pc = "sorted"
    /\ ~HasCycle(Edges(items, ListTarget))
    /\ \E i, j \in 1..Len(items) : \E k \in 1..Len(items[i].fields) :
          /\ i < j
          /\ items[i].fields[k].ty = List(List(Struct(items[j].name)))
          /\ Before(order, items[j].name, items[i].name)

\* C2: sort_deps never returns an order for records whose reference graph
\* has a cycle (it fails with CyclicDependency instead).
C2_CycleRejected ==
    pc = "sorted" => ~HasCycle(Edges(items, ListTarget))

\* C3: for records with no reference cycle, every declared record D that a
\* field of R reaches through a nesting holding an Optional wrapper is
\* strictly before R in the order sort_deps returns.
C3_OptionalDepsFirst ==
    (pc = "sorted" /\ DistinctNames(items) /\ ~HasCycle(Edges(items, AnyTarget)))
        => DepsFirst(items, order, OptTarget)

(***************************************************************************)
(* has_serialization_attr: the flags (has_capnp, has_serde) of a           *)
(* declaration's attribute list.                                           *)
(*                                                                         *)
(* An attribute is [name, list, nested]: name is the last segment of its   *)
(* path, list tells whether its meta is a Meta::List, nested are the       *)
(* metas parse_args_with yields (<<>> when the parse fails), each          *)
(* [path, name]: whether it is a Meta::Path, and the last segment.         *)
(***************************************************************************)
Attr(n, l, ns) == [name |-> n, list |-> l, nested |-> ns]
Nested(p, n)   == [path |-> p, name |-> n]

\* One iteration of the loop: the flags after attribute a.
attr_step_overwrite(a, capnp, serde) ==
    <<a.name = "capnp", a.name = "serde">>

attr_step(a, capnp, serde) ==
    CASE a.name = "capnp" -> <<TRUE, serde>>
      [] a.name = "serde" -> <<capnp, TRUE>>
      [] a.name = "derive" ->
            IF /\ a.list
               /\ \E k \in 1..Len(a.nested) :
                     /\ a.nested[k].path
                     /\ a.nested[k].name \in {"Serialize", "Deserialize"}
            THEN <<capnp, TRUE>>
            ELSE <<capnp, serde>>
      [] OTHER -> <<capnp, serde>>

RECURSIVE attr_loop(_, _, _, _)
attr_loop(as, i, capnp, serde) ==
    IF i > Len(as)
    THEN <<capnp, serde>>
    ELSE LET r == attr_step(as[i], capnp, serde)
         IN  attr_loop(as, i + 1, r[1], r[2])

has_serialization_attr(as) == attr_loop(as, 1, FALSE, FALSE)

(***************************************************************************)
(* SpecAttr: the loop of has_serialization_attr, one attribute a step.     *)
(***************************************************************************)
NestedMetas ==
    {Nested(TRUE, "Serialize"), Nested(TRUE, "Deserialize"),
     Nested(TRUE, "Debug"), Nested(FALSE, "Serialize")}

NestedLists ==
    {<<>>} \cup {<<n>> : n \in NestedMetas}
           \cup {<<n, m>> : n \in NestedMetas, m \in NestedMetas}

Attributes ==
    {Attr("capnp", FALSE, <<>>), Attr("serde", TRUE, <<>>),
     Attr("doc", FALSE, <<>>), Attr("derive", FALSE, <<>>)}
    \cup {Attr("derive", TRUE, ns) : ns \in NestedLists}

RECURSIVE SeqsUpTo(_, _)
\* The sequences over S of length at most n.
SeqsUpTo(S, n) ==
    IF n = 0 THEN {<<>>}
    ELSE {<<>>} \cup {<<x>> \o r : x \in S, r \in SeqsUpTo(S, n - 1)}

InitAttr ==
    /\ pc = "attr_loop"
    /\ attrs \in SeqsUpTo(Attributes, MaxAttrs)
    /\ attr_i = 0
    /\ has_capnp = FALSE
    /\ has_serde = FALSE
    /\ SortIdle
    /\ GenIdle
    /\ CallIdle

\* for attr in attrs { ... }
AttrNext ==
    /\ pc = "attr_loop"
    /\ attr_i < Len(attrs)
    /\ LET r == attr_step(attrs[attr_i + 1], has_capnp, has_serde)
       IN  has_capnp' = r[1] /\ has_serde' = r[2]
    /\ attr_i' = attr_i + 1
    /\ UNCHANGED <<pc, attrs, sortVars, genVars, callVars>>

\* (has_capnp, has_serde)
AttrReturn ==
    /\ pc = "attr_loop"
    /\ attr_i = Len(attrs)
    /\ pc' = "attr_done"
    /\ UNCHANGED <<attrVars, sortVars, genVars, callVars>>

NextAttr == AttrNext \/ AttrReturn

SpecAttr == InitAttr /\ [][NextAttr]_vars

(***************************************************************************)
(* Claims on the classification flags (SpecAttr).                          *)
(***************************************************************************)
\* What attribute a registers on its own.
RegistersCapnp(a) == a.name = "capnp"
RegistersSerde(a) ==
    \/ a.name = "serde"
    \/ /\ a.name = "derive" /\ a.list
       /\ \E k \in 1..Len(a.nested) :
             a.nested[k] \in {Nested(TRUE, "Serialize"), Nested(TRUE, "Deserialize")}

Reorderings(n) ==
    {p \in [1..n -> 1..n] : \A i, j \in 1..n : p[i] = p[j] => i = j}

Permuted(s, p) == [i \in 1..Len(s) |-> s[p[i]]]

\* C10: after any sequence of attributes of one declaration, each flag is
\* the OR of what the attributes gone through register (so a flag once set
\* is never cleared), and the flags returned are those of every
\* reordering of the attributes.
C10_FlagsAreOr ==
    pc \in {"attr_loop", "attr_done"} =>
        /\ has_capnp = (\E k \in 1..attr_i : RegistersCapnp(attrs[k]))
        /\ has_serde = (\E k \in 1..attr_i : RegistersSerde(attrs[k]))
        /\ pc = "attr_done" =>
              \A p \in Reorderings(Len(attrs)) :
                  has_serialization_attr(Permuted(attrs, p)) = <<has_capnp, has_serde>>

\* C10 witness: the loop has returned with a flag that an attribute set
\* and a later attribute did not register.
C10_Witness ==
    /\ pc = "attr_done"
    /\ Len(attrs) = 2
    /\ RegistersCapnp(attrs[1]) /\ ~RegistersCapnp(attrs[2])
    /\ RegistersSerde(attrs[2]) /\ ~RegistersSerde(attrs[1])
    /\ has_capnp /\ has_serde

(***************************************************************************)
(* Identifiers are sequences of characters; Str is ident.to_string().      *)
(***************************************************************************)
RECURSIVE Str(_)
Str(cs) == IF cs = <<>> THEN "" ELSE Head(cs) \o Str(Tail(cs))

LowerCase == <<"a", "b", "c", "d", "e", "f", "g", "h", "i", "j", "k", "l", "m",
               "n", "o", "p", "q", "r", "s", "t", "u", "v", "w", "x", "y", "z">>
UpperCase == <<"A", "B", "C", "D", "E", "F", "G", "H", "I", "J", "K", "L", "M",
               "N", "O", "P", "Q", "R", "S", "T", "U", "V", "W", "X", "Y", "Z">>

to_ascii_uppercase(c) ==
    IF \E i \in 1..Len(LowerCase) : LowerCase[i] = c
    THEN UpperCase[CHOOSE i \in 1..Len(LowerCase) : LowerCase[i] = c]
    ELSE c

RECURSIVE camel_loop(_, _, _, _)
camel_loop(s, i, capitalize, result) ==
    IF i > Len(s) THEN result
    ELSE IF s[i] = "_" THEN camel_loop(s, i + 1, TRUE, result)
    ELSE IF capitalize
         THEN camel_loop(s, i + 1, FALSE, result \o to_ascii_uppercase(s[i]))
         ELSE camel_loop(s, i + 1, capitalize, result \o s[i])

to_camel_case(s, is_type) == camel_loop(s, 1, is_type, "")

(***************************************************************************)
(* syn::Type, as far as map_ty tells its shapes apart.                     *)
(*   [tag "Path", qself, segments]   segments: <<[ident, arguments]>>      *)
(*   [tag "Array", elem]                                                   *)
(*   [tag "Tuple"]                   any other shape                       *)
(* PathArguments: [kind "None" | "AngleBracketed" | "Parenthesized", args] *)
(* GenericArgument: [kind "Type", ty] or [kind "Lifetime"].                *)
(***************************************************************************)
NoArguments  == [kind |-> "None", args |-> <<>>]
TypeArg(t)   == [kind |-> "Type", ty |-> t]
Segment(id, arguments) == [ident |-> id, arguments |-> arguments]
TPath(id) ==
    [tag |-> "Path", qself |-> FALSE, segments |-> <<Segment(id, NoArguments)>>]
TGeneric(id, t) ==
    [tag |-> "Path", qself |-> FALSE,
     segments |-> <<Segment(id, [kind |-> "AngleBracketed", args |-> <<TypeArg(t)>>])>>]
TArray(t) == [tag |-> "Array", elem |-> t]

\* panic!(msg): the value that stands for the unwinding.
Panic(msg) == [tag |-> "Panic", name |-> msg]
IsPanic(v) == "tag" \in DOMAIN v /\ v.tag = "Panic"

box_new_inner(outer, inner) == inner

\* The container outer built around Box::new(inner), or the panic of inner.
box_new(outer, inner) == IF IsPanic(inner) THEN inner ELSE outer

\* Box::new(inner) under a constructor: a panic in inner unwinds through it.
Wrap(Ctor(_), inner) == box_new(Ctor(inner), inner)

(***************************************************************************)
(* map_ty and extract_generic_ty.                                          *)
(***************************************************************************)
\* The arms of match id.as_str() that take no type parameter.
map_named_by_ser_type(id, ser_type) ==
    CASE id = "String" -> Primitive("Text")
      [] id = "u32" -> Primitive("UInt32")
      [] id = "u64" -> Primitive("UInt64")
      [] id = "bool" -> Primitive("Bool")
      [] OTHER -> IF ser_type = "Capnp" THEN Struct(id) ELSE SerdeOnly(id)

map_named(id, ser_type) ==
    CASE id = "String" -> Primitive("Text")
      [] id = "u32" -> Primitive("UInt32")
      [] id = "u64" -> Primitive("UInt64")
      [] id = "bool" -> Primitive("Bool")
      [] id \in {"HashMap", "BTreeMap"} ->
            IF ser_type = "Serde" THEN SerdeOnly(id)
            ELSE Panic("Map types are only supported with Serde serialization")
      [] id \in {"HashSet", "BTreeSet"} ->
            IF ser_type = "Serde" THEN SerdeOnly(id)
            ELSE Panic("Set types are only supported with Serde serialization")
      [] OTHER -> Struct(id)

unsupported_type_as_bytes(ty) == List(Primitive("UInt8"))

\* _ => panic!("Unsupported type")
unsupported_type(ty) == Panic("Unsupported type")

no_type_parameter_void(p) == Primitive("Void")

\* .unwrap_or_else(|| panic!("Generic type must have a type parameter"))
no_type_parameter(p) == Panic("Generic type must have a type parameter")

RECURSIVE map_ty(_, _), extract_generic_ty(_, _)
map_ty(ty, ser_type) ==
    CASE ty.tag = "Path" /\ ~ty.qself ->
            LET id == Str(ty.segments[Len(ty.segments)].ident)
            IN  CASE id = "Option" -> Wrap(Optional, extract_generic_ty(ty, ser_type))
                  [] id = "Vec" -> Wrap(List, extract_generic_ty(ty, ser_type))
                  [] OTHER -> map_named(id, ser_type)
      [] ty.tag = "Array" -> Wrap(List, map_ty(ty.elem, ser_type))
      [] OTHER -> unsupported_type(ty)

extract_generic_ty(p, ser_type) ==
    LET arguments == p.segments[1].arguments
    IN  IF arguments.kind = "AngleBracketed"
        THEN IF arguments.args # <<>> /\ arguments.args[1].kind = "Type"
             THEN map_ty(arguments.args[1].ty, ser_type)
             ELSE no_type_parameter(p)
        ELSE Panic("Generic type must have angle bracketed arguments")

(***************************************************************************)
(* mk_struct, mk_enum, mk_interface.                                       *)
(***************************************************************************)
\* The first panic among the values of sequence vs, or none.
FirstPanic(vs) ==
    IF \E i \in 1..Len(vs) : IsPanic(vs[i])
    THEN Some(vs[CHOOSE i \in 1..Len(vs) :
                    IsPanic(vs[i]) /\ \A j \in 1..(i - 1) : ~IsPanic(vs[j])])
    ELSE None

\* A field's attributes are [name, value]: the last segment of the path and,
\* for a name-value meta with a string literal, Some(the literal).
serde_rename(f) ==
    LET hits == {k \in 1..Len(f.attrs) :
                    f.attrs[k].name = "serde" /\ f.attrs[k].value # None}
    IN  IF hits = {} THEN f.ident
        ELSE f.attrs[CHOOSE k \in hits : \A h \in hits : k <= h].value[1]

field_id_one_based(i) == i

\* enumerate(): the field at position i (from 1) gets the zero-based index.
field_id(i) == i - 1

mk_struct(input, ser_type) ==
    IF input.fields.kind # "Named"
    THEN Panic("Only named structs are supported")
    ELSE LET named == input.fields.named
             tys   == [i \in 1..Len(named) |-> map_ty(named[i].ty, ser_type)]
         IN  IF FirstPanic(tys) # None THEN FirstPanic(tys)[1]
             ELSE [name      |-> to_camel_case(input.ident, TRUE),
                   fields    |-> [i \in 1..Len(named) |->
                                    [name |-> to_camel_case(serde_rename(named[i]), FALSE),
                                     id   |-> field_id(i),
                                     ty   |-> tys[i]]],
                   has_serde |-> ser_type \in {"Serde", "Both"}]

\* Whether an Option holds a panic: the mapping inside Some(..) unwound.
PanicIn(o) == o # None /\ IsPanic(o[1])

\* A variant's payload: Some(type) or None; Some(panic) when the match unwinds.
variant_ty(v, ser_type) ==
    IF v.fields.kind = "Unnamed"
    THEN IF Len(v.fields.unnamed) = 1
         THEN Some(map_ty(v.fields.unnamed[1], ser_type))
         ELSE Some(Panic("Enum variants must have exactly one unnamed field"))
    ELSE None

mk_enum(input, ser_type) ==
    LET tys == [i \in 1..Len(input.variants) |-> variant_ty(input.variants[i], ser_type)]
        bad == {i \in 1..Len(tys) : PanicIn(tys[i])}
    IN  IF bad # {} THEN tys[CHOOSE i \in bad : \A j \in bad : i <= j][1]
        ELSE [name      |-> to_camel_case(input.ident, TRUE),
              variants  |-> [i \in 1..Len(input.variants) |->
                               [name |-> to_camel_case(input.variants[i].ident, FALSE),
                                ty   |-> tys[i]]],
              has_serde |-> ser_type \in {"Serde", "Both"}]

IsFn(item)      == item.kind = "Fn"
IsIdentParam(a) == a.kind = "Typed" /\ a.pat.kind = "Ident"

\* filter_map: the elements of s that satisfy Keep, in order.
RECURSIVE FnItems(_), IdentParams(_)
FnItems(s) ==
    IF s = <<>> THEN <<>>
    ELSE (IF IsFn(Head(s)) THEN <<Head(s)>> ELSE <<>>) \o FnItems(Tail(s))
IdentParams(s) ==
    IF s = <<>> THEN <<>>
    ELSE (IF IsIdentParam(Head(s)) THEN <<Head(s)>> ELSE <<>>) \o IdentParams(Tail(s))

mk_method(method) ==
    LET args == IdentParams(method.inputs)
        tys  == [i \in 1..Len(args) |-> map_ty(args[i].ty, "Capnp")]
        ret  == IF method.output = None THEN None
                ELSE Some(map_ty(method.output[1], "Capnp"))
    IN  IF FirstPanic(tys) # None THEN FirstPanic(tys)[1]
        ELSE IF PanicIn(ret) THEN ret[1]
        ELSE [name   |-> to_camel_case(method.ident, FALSE),
              params |-> [i \in 1..Len(args) |->
                            [name |-> to_camel_case(args[i].pat.ident, FALSE),
                             ty   |-> tys[i]]],
              ret    |-> ret]

mk_interface(input) ==
    LET fns == FnItems(input.items)
        ms  == [i \in 1..Len(fns) |-> mk_method(fns[i])]
    IN  IF FirstPanic(ms) # None THEN FirstPanic(ms)[1]
        ELSE [name |-> to_camel_case(input.ident, TRUE), methods |-> ms]

(***************************************************************************)
(* Display for CapnpType, and the text generate_schema pushes: schema is   *)
(* the sequence of the pieces of text, the file their concatenation.       *)
(***************************************************************************)
fmt_optional_bare(inner) == inner

\* Self::Optional(inner) => write!(f, "union {{ .. }}", inner)
fmt_optional(inner) ==
    "union {\n  value @0 :" \o inner \o ";\n  none @1 :Void;\n}"

RECURSIVE fmt(_)
fmt(ty) ==
    CASE ty.tag = "List" -> "List(" \o fmt(ty.inner) \o ")"
      [] ty.tag = "Optional" -> fmt_optional(fmt(ty.inner))
      [] OTHER -> ty.name

RECURSIVE Flatten(_)
Flatten(ss) == IF ss = <<>> THEN <<>> ELSE Head(ss) \o Flatten(Tail(ss))

file_header       == "@0xabcdefabcdefabcdef;\n\n"
struct_open(n)    == "struct " \o n \o " {\n"
enum_open(n)      == "enum " \o n \o " {\n"
interface_open(n) == "interface " \o n \o " {\n"
block_close       == "}\n\n"
field_line(n, id, ty)  == "  " \o n \o " @" \o ToString(id) \o " :" \o ty \o ";\n"
enumerant_line(n, id)  == "  " \o n \o " @" \o ToString(id) \o ";\n"

RECURSIVE params_text(_, _)
\* The parameters from position i on, separated by ", ".
params_text(params, i) ==
    IF i > Len(params) THEN ""
    ELSE (IF i > 1 THEN ", " ELSE "")
         \o params[i].name \o " :" \o fmt(params[i].ty)
         \o params_text(params, i + 1)

method_line(m, id) ==
    "  " \o m.name \o " @" \o ToString(id) \o " (" \o params_text(m.params, 1) \o ")"
    \o (IF m.ret # None THEN " -> " \o fmt(m.ret[1]) ELSE "")
    \o ";\n"

any_payload_all(e) == \A i \in 1..Len(e.variants) : e.variants[i].ty # None

\* Whether the sum type is written as a struct: some variant has a payload.
any_payload(e) == \E i \in 1..Len(e.variants) : e.variants[i].ty # None

emit_enum(e) ==
    IF any_payload(e)
    THEN <<struct_open(e.name)>>
         \o [i \in 1..Len(e.variants) |->
                field_line(e.variants[i].name, i - 1,
                           IF e.variants[i].ty = None THEN "Void"
                           ELSE fmt(e.variants[i].ty[1]))]
         \o <<block_close>>
    ELSE <<enum_open(e.name)>>
         \o [i \in 1..Len(e.variants) |-> enumerant_line(e.variants[i].name, i - 1)]
         \o <<block_close>>

emit_struct(s) ==
    <<struct_open(s.name)>>
    \o [i \in 1..Len(s.fields) |->
           field_line(s.fields[i].name, s.fields[i].id, fmt(s.fields[i].ty))]
    \o <<block_close>>

emit_interface(i) ==
    <<interface_open(i.name)>>
    \o [k \in 1..Len(i.methods) |-> method_line(i.methods[k], 0)]
    \o <<block_close>>

schema_text_structs_first(ss, es, is) ==
    <<file_header>>
    \o Flatten([k \in 1..Len(sort_deps(ss)) |-> emit_struct(sort_deps(ss)[k])])
    \o Flatten([k \in 1..Len(es) |-> emit_enum(es[k])])
    \o Flatten([k \in 1..Len(is) |-> emit_interface(is[k])])

schema_text(ss, es, is) ==
    <<file_header>>
    \o Flatten([k \in 1..Len(es) |-> emit_enum(es[k])])
    \o Flatten([k \in 1..Len(sort_deps(ss)) |-> emit_struct(sort_deps(ss)[k])])
    \o Flatten([k \in 1..Len(is) |-> emit_interface(is[k])])

(***************************************************************************)
(* The items of the scanned source files.                                  *)
(*   [kind "Struct", attrs, ident, fields: [kind, named: <<[ident, attrs,  *)
(*        ty]>>]]                                                          *)
(*   [kind "Enum", attrs, ident, variants: <<[ident, fields: [kind,        *)
(*        unnamed: <<ty>>]]>>]                                             *)
(*   [kind "Trait", attrs, ident, items: <<[kind, ident, inputs: <<[kind,  *)
(*        pat: [kind, ident], ty]>>, output]>>]                            *)
(*   [kind "Other"]                                                        *)
(***************************************************************************)
IdString == <<"S", "t", "r", "i", "n", "g">>
IdU32    == <<"u", "3", "2">>
IdOption == <<"O", "p", "t", "i", "o", "n">>
IdVec    == <<"V", "e", "c">>

StructIdents == {<<"A">>, <<"b">>}
EnumIdents   == {<<"E">>}
TraitIdents  == {<<"I">>}
FieldIdents   == [i \in 1..8 |-> <<"f", ToString(i - 1)>>]
VariantIdents == [i \in 1..8 |-> <<"v", ToString(i - 1)>>]
MethodIdents  == [i \in 1..8 |-> <<"m", ToString(i - 1)>>]
ParamIdents   == [i \in 1..8 |-> <<"p", ToString(i - 1)>>]

AttrCapnp  == Attr("capnp", FALSE, <<>>)
AttrSerde  == Attr("derive", TRUE, <<Nested(TRUE, "Serialize"), Nested(TRUE, "Deserialize")>>)
AttrDebug  == Attr("derive", TRUE, <<Nested(TRUE, "Debug")>>)

StructAttrs == {<<AttrCapnp>>, <<AttrSerde>>, <<AttrCapnp, AttrSerde>>, <<AttrDebug>>}
EnumAttrs   == {<<AttrCapnp>>, <<AttrSerde>>, <<AttrCapnp, AttrSerde>>}
TraitAttrs  == {<<AttrCapnp>>, <<>>}

\* A type of a shape map_ty has no arm for, a tuple say.
TTuple == [tag |-> "Tuple"]

HostLeafTypes ==
    {TPath(IdString), TPath(IdU32), TTuple} \cup {TPath(id) : id \in StructIdents}

RECURSIVE HostTypesOfSize(_)
HostTypesOfSize(k) ==
    IF k = 1 THEN HostLeafTypes
    ELSE UNION {{TGeneric(IdOption, t), TGeneric(IdVec, t), TArray(t)}
                : t \in HostTypesOfSize(k - 1)}

RECURSIVE NamedFields(_, _), Variants(_, _), Params(_, _), Methods(_, _)
\* The field lists of size k, the first field at position pos (from 1).
NamedFields(k, pos) ==
    IF k = 0 THEN {<<>>}
    ELSE UNION {
           {<<[ident |-> FieldIdents[pos], attrs |-> <<>>, ty |-> t]>> \o rest :
               t \in HostTypesOfSize(c), rest \in NamedFields(k - c, pos + 1)}
           : c \in 1..k}

UnitVariant(pos) ==
    [ident |-> VariantIdents[pos], fields |-> [kind |-> "Unit", unnamed |-> <<>>]]
TupleVariant(pos, tys) ==
    [ident |-> VariantIdents[pos], fields |-> [kind |-> "Unnamed", unnamed |-> tys]]

Variants(k, pos) ==
    IF k = 0 THEN {<<>>}
    ELSE {<<UnitVariant(pos)>> \o rest : rest \in Variants(k - 1, pos + 1)}
         \cup UNION {
           {<<TupleVariant(pos, <<t>>)>> \o rest :
               t \in HostTypesOfSize(c - 1), rest \in Variants(k - c, pos + 1)}
           : c \in 2..k}

Params(k, pos) ==
    IF k = 0 THEN {<<>>}
    ELSE UNION {
           {<<[kind |-> "Typed", pat |-> [kind |-> "Ident", ident |-> ParamIdents[pos]],
               ty |-> t]>> \o rest :
               t \in HostTypesOfSize(c), rest \in Params(k - c, pos + 1)}
           : c \in 1..k}

\* The methods of size k: one, its parameters, its return type if any.
MethodsOfSize(k, pos) ==
    UNION {
      {[kind |-> "Fn", ident |-> MethodIdents[pos], inputs |-> ps, output |-> out] :
          ps \in Params(p, 1),
          out \in IF k - 1 - p = 0 THEN {None}
                  ELSE {Some(t) : t \in HostTypesOfSize(k - 1 - p)}}
      : p \in 0..(k - 1)}

Methods(k, pos) ==
    IF k = 0 THEN {<<>>}
    ELSE UNION {
           {<<m>> \o rest : m \in MethodsOfSize(c, pos), rest \in Methods(k - c, pos + 1)}
           : c \in 1..k}

StructItems(k) ==
    {[kind |-> "Struct", attrs |-> as, ident |-> id,
      fields |-> [kind |-> "Named", named |-> fs]] :
        as \in StructAttrs, id \in StructIdents, fs \in NamedFields(k - 2, 1)}

EnumItems(k) ==
    {[kind |-> "Enum", attrs |-> as, ident |-> id, variants |-> vs] :
        as \in EnumAttrs, id \in EnumIdents, vs \in Variants(k - 2, 1)}

TraitItems(k) ==
    {[kind |-> "Trait", attrs |-> as, ident |-> id, items |-> ms] :
        as \in TraitAttrs, id \in TraitIdents, ms \in Methods(k - 2, 1)}

OtherItem == [kind |-> "Other"]

RECURSIVE TypeSize(_)
TypeSize(ty) ==
    CASE ty.tag = "Array" -> 1 + TypeSize(ty.elem)
      [] ty.tag = "Path" ->
            LET args == ty.segments[Len(ty.segments)].arguments.args
            IN  IF args = <<>> THEN 1 ELSE 1 + TypeSize(args[1].ty)
      [] OTHER -> 1

RECURSIVE Sum(_)
Sum(ns) == IF ns = <<>> THEN 0 ELSE Head(ns) + Sum(Tail(ns))

ItemSize(it) ==
    CASE it.kind = "Struct" ->
            2 + Sum([i \in 1..Len(it.fields.named) |-> TypeSize(it.fields.named[i].ty)])
      [] it.kind = "Enum" ->
            2 + Sum([i \in 1..Len(it.variants) |->
                       1 + Sum([j \in 1..Len(it.variants[i].fields.unnamed) |->
                                  TypeSize(it.variants[i].fields.unnamed[j])])])
      [] it.kind = "Trait" ->
            2 + Sum([i \in 1..Len(it.items) |->
                       1 + Sum([j \in 1..Len(it.items[i].inputs) |->
                                  TypeSize(it.items[i].inputs[j].ty)])
                         + (IF it.items[i].output = None THEN 0
                            ELSE TypeSize(it.items[i].output[1]))])
      [] OTHER -> 2

\* What the size bound leaves for the next item.
Room == MaxFileSize - Sum([i \in 1..Len(file) |-> ItemSize(file[i])])

(***************************************************************************)
(* Spec: generate_schema.                                                  *)
(***************************************************************************)
ser_type_of(capnp, serde) ==
    CASE capnp /\ serde -> "Both"
      [] capnp -> "Capnp"
      [] OTHER -> "Serde"

Init ==
    /\ pc = "scan"
    /\ run = "first"
    /\ src = <<>>
    /\ file = <<>>
    /\ structs = <<>>
    /\ enums = <<>>
    /\ interfaces = <<>>
    /\ schema = <<>>
    /\ disk = None
    /\ SortIdle
    /\ AttrIdle
    /\ CallIdle

\* The items the scan can meet next: in the first call any item the size
\* bound has room for, in a later call the next item of the sources.
Upcoming(ItemsOfSize(_), kind) ==
    IF run = "first" THEN UNION {ItemsOfSize(k) : k \in 2..Room}
    ELSE {src[i] : i \in {j \in {1} : j <= Len(src) /\ src[j].kind = kind}}

Scanned(item) ==
    /\ file' = Append(file, item)
    /\ src' = IF run = "first" THEN src ELSE Tail(src)

after_push_ignore(decl) == "scan"

\* Where generate_schema stands after mk_struct, mk_enum or mk_interface:
\* in the loop, or unwinding from a panic.
after_push(decl) == IF IsPanic(decl) THEN "panicked" ELSE "scan"

\* The scan goes on with the declaration pushed, or the build script unwinds.
Push(decl, item, ss, es, is) ==
    /\ Scanned(item)
    /\ pc' = after_push(decl)
    /\ IF IsPanic(decl)
       THEN UNCHANGED <<structs, enums, interfaces>>
       ELSE structs' = ss /\ enums' = es /\ interfaces' = is
    /\ UNCHANGED <<schema, disk, run, sortVars, attrVars, callVars>>

Skip(item) ==
    /\ Scanned(item)
    /\ UNCHANGED <<pc, structs, enums, interfaces, schema, disk, run,
                   sortVars, attrVars, callVars>>

\* Item::Struct(s)
ScanStruct ==
    /\ pc = "scan"
    /\ \E s \in Upcoming(StructItems, "Struct") :
          LET flags == has_serialization_attr(s.attrs)
          IN  IF flags[1] \/ flags[2]
              THEN LET decl == mk_struct(s, ser_type_of(flags[1], flags[2]))
                   IN  Push(decl, s, Append(structs, decl), enums, interfaces)
              ELSE Skip(s)

\* Item::Enum(e)
ScanEnum ==
    /\ pc = "scan"
    /\ \E e \in Upcoming(EnumItems, "Enum") :
          LET flags == has_serialization_attr(e.attrs)
          IN  IF flags[1] \/ flags[2]
              THEN LET decl == mk_enum(e, ser_type_of(flags[1], flags[2]))
                   IN  Push(decl, e, structs, Append(enums, decl), interfaces)
              ELSE Skip(e)

\* Item::Trait(t)
ScanTrait ==
    /\ pc = "scan"
    /\ \E t \in Upcoming(TraitItems, "Trait") :
          IF has_serialization_attr(t.attrs)[1]
          THEN LET decl == mk_interface(t)
               IN  Push(decl, t, structs, enums, Append(interfaces, decl))
          ELSE Skip(t)

OtherItems(k) == {OtherItem}

\* _ => {}
ScanOther ==
    /\ pc = "scan"
    /\ \E o \in Upcoming(OtherItems, "Other") : Skip(o)

\* The items are through: the schema text is built and written.
Generate ==
    /\ pc = "scan"
    /\ src = <<>>
    /\ schema' = schema_text(structs, enums, interfaces)
    /\ disk' = Some(schema')
    /\ pc' = "done"
    /\ UNCHANGED <<file, structs, enums, interfaces, run, src, sortVars, attrVars, callVars>>

keep_vec(old) == old

\* let mut structs = Vec::new(): the list of an earlier call is gone.
new_vec(old) == <<>>

\* generate_schema is entered again, on the sources given.
Enter(sources) ==
    /\ pc' = "scan"
    /\ src' = sources
    /\ file' = <<>>
    /\ structs' = new_vec(structs)
    /\ enums' = new_vec(enums)
    /\ interfaces' = new_vec(interfaces)
    /\ schema' = <<>>
    /\ UNCHANGED <<disk, sortVars, attrVars, callVars>>

\* The build script runs a second time on the same sources.
RunAgain ==
    /\ pc \in {"done", "panicked"}
    /\ run = "first"
    /\ run' = "again"
    /\ Enter(file)

\* The build script runs a second time after an item was added to the sources.
RunEdited ==
    /\ pc \in {"done", "panicked"}
    /\ run = "first"
    /\ run' = "edited"
    /\ \E k \in 2..Room :
          \E it \in StructItems(k) \cup EnumItems(k) \cup TraitItems(k) :
              Enter(Append(file, it))

Next ==
    \/ ScanStruct \/ ScanEnum \/ ScanTrait \/ ScanOther \/ Generate
    \/ RunAgain \/ RunEdited

Spec == Init /\ [][Next]_vars

(***************************************************************************)
(* Claims on generate_schema (Spec).                                       *)
(***************************************************************************)
\* The classification the attributes of an item declare.
IsNative(it)        == \E k \in 1..Len(it.attrs) : RegistersCapnp(it.attrs[k])
IsOpaqueCapable(it) == \E k \in 1..Len(it.attrs) : RegistersSerde(it.attrs[k])

\* Item i of the file is a struct (an enum) the scan has pushed.
StructAt(i) == file[i].kind = "Struct" /\ (IsNative(file[i]) \/ IsOpaqueCapable(file[i]))
EnumAt(i)   == file[i].kind = "Enum" /\ (IsNative(file[i]) \/ IsOpaqueCapable(file[i]))

\* Its place in structs (in enums).
StructIndex(i) == Cardinality({j \in 1..i : StructAt(j)})
EnumIndex(i)   == Cardinality({j \in 1..i : EnumAt(j)})

TypeName(it) == to_camel_case(it.ident, TRUE)

\* No earlier struct of the file carries the name of struct i.
FirstOfName(i) ==
    \A j \in 1..(i - 1) : StructAt(j) => TypeName(file[j]) # TypeName(file[i])

\* The pieces of text lines stand in the schema one after the other.
HasBlock(lines) ==
    \E j \in 1..Len(schema) :
        \A k \in 1..Len(lines) :
            j + k - 1 <= Len(schema) /\ schema[j + k - 1] = lines[k]

RECURSIVE HostLeaf(_), LeafOf(_)
\* The identifier at the bottom of a host type, under its containers.
HostLeaf(ty) ==
    CASE ty.tag = "Array" -> HostLeaf(ty.elem)
      [] ty.tag = "Path" ->
            LET seg == ty.segments[Len(ty.segments)]
            IN  IF seg.arguments.args = <<>> THEN seg.ident
                ELSE HostLeaf(seg.arguments.args[1].ty)
      [] OTHER -> <<>>

\* The type at the bottom of a mapped type, under List and Optional.
LeafOf(ty) == IF ty.tag \in {"List", "Optional"} THEN LeafOf(ty.inner) ELSE ty

\* C4: in every emitted record the field declared at zero-based position
\* k is written with ordinal @k, whatever its type: the record's block is
\* its fields in declaration order with the ordinals 0..n-1.
C4_FieldOrdinals ==
    pc = "done" =>
        \A i \in 1..Len(file) :
            (StructAt(i) /\ FirstOfName(i)) =>
                LET named == file[i].fields.named
                    d     == structs[StructIndex(i)]
                IN  HasBlock(<<struct_open(TypeName(file[i]))>>
                             \o [k \in 1..Len(named) |->
                                   field_line(to_camel_case(named[k].ident, FALSE),
                                              k - 1, fmt(d.fields[k].ty))]
                             \o <<block_close>>)

\* C4 witness: a record with a primitive field and then a container field
\* has been written.
C4_Witness ==
    /\ pc = "done"
    /\ \E i \in 1..Len(file) :
          /\ StructAt(i)
          /\ Len(file[i].fields.named) = 2
          /\ file[i].fields.named[1].ty = TPath(IdString)
          /\ file[i].fields.named[2].ty \in {TGeneric(IdVec, TPath(IdU32)),
                                             TGeneric(IdOption, TPath(IdU32))}
          /\ \E j \in 1..Len(schema) :
                schema[j] \in {field_line("f1", 1, "List(UInt32)"),
                               field_line("f1", 1, fmt(Optional(Primitive("UInt32"))))}

\* C5: in every emitted interface the method declared at zero-based
\* position k is written with ordinal @k.
C5_MethodOrdinals ==
    pc = "done" =>
        \A q \in 1..Len(interfaces) :
            HasBlock(<<interface_open(interfaces[q].name)>>
                     \o [k \in 1..Len(interfaces[q].methods) |->
                           method_line(interfaces[q].methods[k], k - 1)]
                     \o <<block_close>>)

\* No other struct or enum of the file is declared under the name of item i.
OnlyOfName(i) ==
    \A j \in 1..Len(file) :
        (j # i /\ file[j].kind \in {"Struct", "Enum"})
            => TypeName(file[j]) # TypeName(file[i])

\* A variant of the source carries a payload.
HasPayload(v) == v.fields.kind = "Unnamed" /\ v.fields.unnamed # <<>>

C7_NativeWinsOverOpaque ==
    pc = "done" =>
        \A t \in 1..Len(file) :
            (StructAt(t) /\ IsNative(file[t]) /\ IsOpaqueCapable(file[t])) =>
                \A i \in 1..Len(file) :
                    StructAt(i) =>
                        \A k \in 1..Len(file[i].fields.named) :
                            HostLeaf(file[i].fields.named[k].ty) = file[t].ident =>
                                LeafOf(structs[StructIndex(i)].fields[k].ty)
                                    = Struct(Str(file[t].ident))

\* C7 witness: a record that is opaque-capable only has a field naming a
\* type declared both ways, and the schema writes the field by that name.
C7_Witness ==
    /\ pc = "done"
    /\ \E t, i \in 1..Len(file) :
          /\ StructAt(t) /\ IsNative(file[t]) /\ IsOpaqueCapable(file[t])
          /\ StructAt(i) /\ ~IsNative(file[i])
          /\ Len(file[i].fields.named) = 1
          /\ file[i].fields.named[1].ty = TPath(file[t].ident)
          /\ \E j \in 1..Len(schema) :
                schema[j] = field_line("f0", 0, Str(file[t].ident))

\* The struct and enum items declared opaque-capable only under a name
\* that no item declares schema-native.
OpaqueOnlyAt(t) ==
    /\ file[t].kind \in {"Struct", "Enum"}
    /\ IsOpaqueCapable(file[t])
    /\ \A u \in 1..Len(file) :
          (file[u].kind \in {"Struct", "Enum"} /\ file[u].ident = file[t].ident)
              => ~IsNative(file[u])

\* C8: every field whose type is the name of a type declared opaque-capable
\* only is written in the schema text as List(UInt8).
C8_OpaqueRendersBytes ==
    pc = "done" =>
        \A t \in 1..Len(file) :
            OpaqueOnlyAt(t) =>
                \A i \in 1..Len(file) :
                    (StructAt(i) /\ FirstOfName(i)) =>
                        \A k \in 1..Len(file[i].fields.named) :
                            file[i].fields.named[k].ty = TPath(file[t].ident) =>
                                \E j \in 1..Len(schema) :
                                    schema[j] = field_line(
                                        to_camel_case(file[i].fields.named[k].ident, FALSE),
                                        k - 1, "List(UInt8)")

\* C9: the schema text holds no struct or enum declaration for a type
\* declared opaque-capable only.
C9_NoDeclarationForOpaque ==
    pc = "done" =>
        \A t \in 1..Len(file) :
            OpaqueOnlyAt(t) =>
                \A j \in 1..Len(schema) :
                    schema[j] \notin {struct_open(TypeName(file[t])),
                                      enum_open(TypeName(file[t]))}

\* An item the scan registers: a struct or enum with a serialization
\* attribute, or a trait with the capnp attribute.
IsDeclaration(it) ==
    \/ it.kind \in {"Struct", "Enum"} /\ (IsNative(it) \/ IsOpaqueCapable(it))
    \/ it.kind = "Trait" /\ IsNative(it)

DeclCount(f) == Cardinality({i \in 1..Len(f) : IsDeclaration(f[i])})

\* Some field, payload, parameter or return type of the run has been mapped.
MappedAny ==
    \/ \E i \in 1..Len(structs) : structs[i].fields # <<>>
    \/ \E i \in 1..Len(enums) :
          \E k \in 1..Len(enums[i].variants) : enums[i].variants[k].ty # None
    \/ \E i \in 1..Len(interfaces) :
          \E k \in 1..Len(interfaces[i].methods) :
              \/ interfaces[i].methods[k].params # <<>>
              \/ interfaces[i].methods[k].ret # None

\* C11: no field, payload or parameter type is mapped before every
\* declaration of the run has been registered: once a type has been mapped,
\* no step of the scan registers a further declaration.
C11_MapAfterRegistration ==
    [][MappedAny => DeclCount(file') <= DeclCount(file)]_vars

DeclOf(it) ==
    CASE it.kind = "Struct" ->
            mk_struct(it, ser_type_of(IsNative(it), IsOpaqueCapable(it)))
      [] it.kind = "Enum" ->
            mk_enum(it, ser_type_of(IsNative(it), IsOpaqueCapable(it)))
      [] OTHER -> mk_interface(it)

\* Mapping a field, payload or parameter of item it fails.
MappingFails(it) == IsDeclaration(it) /\ IsPanic(DeclOf(it))

\* C13: a step changes the content of the schema file only at the end of a
\* scan that went through all the sources with no mapping failing, and
\* then to the complete schema of the declarations of that call.
C13_NoPartialFile ==
    [][disk' # disk =>
          /\ pc = "scan" /\ src = <<>>
          /\ \A i \in 1..Len(file) : ~MappingFails(file[i])
          /\ Len(structs) + Len(enums) + Len(interfaces) = DeclCount(file)
          /\ disk' = Some(schema_text(structs, enums, interfaces))]_vars

\* C13 witness: the second call has stopped at a mapping that failed and
\* the schema file is still the one the first call wrote.
C13_Witness ==
    /\ run = "edited"
    /\ pc = "panicked"
    /\ MappingFails(file[Len(file)])
    /\ disk # None
    /\ schema = <<>>

(***************************************************************************)
(* SpecCall: a function of the generator called on its own, on every       *)
(* argument within the bounds.                                             *)
(***************************************************************************)
\* Containers around a leaf type in an argument of map_ty.
MaxDepth == 2

IdU64     == <<"u", "6", "4">>
IdBool    == <<"b", "o", "o", "l">>
IdF32     == <<"f", "3", "2">>
IdF64     == <<"f", "6", "4">>
IdHashMap == <<"H", "a", "s", "h", "M", "a", "p">>
IdHashSet == <<"H", "a", "s", "h", "S", "e", "t">>

\* <T as Trait>::A, a path with a qualified self type.
TQSelf == [tag |-> "Path", qself |-> TRUE, segments |-> <<Segment(<<"A">>, NoArguments)>>]

\* id<>, id<'a> and id(..): a path whose arguments hold no type first.
TNoTypeArg(id, kind, args) ==
    [tag |-> "Path", qself |-> FALSE,
     segments |-> <<Segment(id, [kind |-> kind, args |-> args])>>]

\* HashMap<String, u32> and HashSet<u32>.
THashMap ==
    TNoTypeArg(IdHashMap, "AngleBracketed",
               <<TypeArg(TPath(IdString)), TypeArg(TPath(IdU32))>>)
THashSet == TNoTypeArg(IdHashSet, "AngleBracketed", <<TypeArg(TPath(IdU32))>>)

MapLeaves ==
    {TPath(id) : id \in {IdString, IdU32, IdU64, IdBool, IdF32, IdF64, <<"A">>}}
    \cup {THashMap, THashSet, TTuple, TQSelf}
    \cup {TPath(id) : id \in {IdOption, IdVec}}
    \cup {TNoTypeArg(id, "AngleBracketed", <<>>) : id \in {IdOption, IdVec}}
    \cup {TNoTypeArg(IdVec, "AngleBracketed", <<[kind |-> "Lifetime"]>>),
          TNoTypeArg(IdOption, "Parenthesized", <<>>)}

RECURSIVE MapTypes(_)
MapTypes(d) ==
    IF d = 0 THEN MapLeaves
    ELSE MapTypes(d - 1)
         \cup UNION {{TGeneric(IdOption, t), TGeneric(IdVec, t), TArray(t)}
                     : t \in MapTypes(d - 1)}

SerTypes == {"Capnp", "Serde", "Both"}

MapCalls ==
    {[fn |-> "map_ty", ty |-> t, ser_type |-> st] :
        t \in MapTypes(MaxDepth), st \in SerTypes}

\* std::m::id<t>: the container id written with its module path, the type
\* parameter on the segment that names the container.
IdStd == <<"s", "t", "d">>
TQualified(m, id, t) ==
    [tag |-> "Path", qself |-> FALSE,
     segments |-> <<Segment(IdStd, NoArguments), Segment(m, NoArguments),
                    Segment(id, [kind |-> "AngleBracketed", args |-> <<TypeArg(t)>>])>>]

QualifiedTypes ==
    UNION {{TQualified(<<"o", "p", "t", "i", "o", "n">>, IdOption, t),
            TQualified(<<"v", "e", "c">>, IdVec, t)} : t \in MapTypes(1)}

QualifiedCalls ==
    {[fn |-> "map_ty_qualified", ty |-> t, ser_type |-> st] :
        t \in QualifiedTypes, st \in SerTypes}

\* Variants of a sum type in an argument of mk_enum.
MaxVariants == 2

\* V { a: .., b: .. }: a variant with named payload fields.
StructVariant(pos, tys) ==
    [ident |-> VariantIdents[pos],
     fields |-> [kind |-> "Named", unnamed |-> <<>>,
                 named |-> [i \in 1..Len(tys) |->
                              [ident |-> FieldIdents[i], ty |-> tys[i]]]]]

PayloadLists == {<<>>, <<TPath(IdU32)>>, <<TPath(IdU32), TPath(IdString)>>}

VariantsAt(pos) ==
    {UnitVariant(pos)}
    \cup {TupleVariant(pos, tys) : tys \in PayloadLists}
    \cup {StructVariant(pos, tys) : tys \in PayloadLists \ {<<>>}}

RECURSIVE VariantLists(_, _)
VariantLists(n, pos) ==
    IF n = 0 THEN {<<>>}
    ELSE {<<>>} \cup {<<v>> \o rest :
                        v \in VariantsAt(pos), rest \in VariantLists(n - 1, pos + 1)}

EnumCalls ==
    {[fn |-> "mk_enum",
      input |-> [kind |-> "Enum", attrs |-> <<AttrCapnp>>, ident |-> <<"E">>,
                 variants |-> vs],
      ser_type |-> st] :
        vs \in VariantLists(MaxVariants, 1), st \in SerTypes}

\* Characters of an identifier in an argument of to_camel_case.
MaxIdentLen == 4

IdentChars == {"a", "B", "_"}

RECURSIVE Idents(_)
\* The non-empty identifiers of n characters at most.
Idents(n) ==
    IF n = 1 THEN {<<c>> : c \in IdentChars}
    ELSE Idents(n - 1) \cup {Append(id, c) : id \in Idents(n - 1), c \in IdentChars}

CamelCalls ==
    {[fn |-> "to_camel_case", s |-> id, is_type |-> t] :
        id \in Idents(MaxIdentLen), t \in BOOLEAN}

Calls == MapCalls \cup QualifiedCalls \cup EnumCalls \cup CamelCalls

InitCall ==
    /\ pc = "call"
    /\ call \in Calls
    /\ returned = None
    /\ SortIdle
    /\ AttrIdle
    /\ GenIdle

Return(v) ==
    /\ returned' = Some(v)
    /\ pc' = "returned"
    /\ UNCHANGED <<call, sortVars, attrVars, genVars>>

CallMapTy ==
    /\ pc = "call"
    /\ call.fn = "map_ty"
    /\ Return(map_ty(call.ty, call.ser_type))

\* map_ty on a container written with a module-qualified path.
CallMapTyQualified ==
    /\ pc = "call"
    /\ call.fn = "map_ty_qualified"
    /\ Return(map_ty(call.ty, call.ser_type))

CallMkEnum ==
    /\ pc = "call"
    /\ call.fn = "mk_enum"
    /\ Return(mk_enum(call.input, call.ser_type))

CallToCamelCase ==
    /\ pc = "call"
    /\ call.fn = "to_camel_case"
    /\ Return(to_camel_case(call.s, call.is_type))

NextCall == CallMapTy \/ CallMapTyQualified \/ CallMkEnum \/ CallToCamelCase

SpecCall == InitCall /\ [][NextCall]_vars

\* A value of CapnpType, complete down to its leaves.
RECURSIVE IsSchemaType(_)
IsSchemaType(v) ==
    /\ "tag" \in DOMAIN v
    /\ \/ v.tag \in {"Primitive", "Struct", "SerdeOnly"}
       \/ v.tag \in {"List", "Optional"} /\ IsSchemaType(v.inner)

\* The type parameter of a path type: its last segment's first argument,
\* when that is a type.
TypeParam(ty) ==
    LET arguments == ty.segments[Len(ty.segments)].arguments
    IN  IF arguments.args # <<>> /\ arguments.args[1].kind = "Type"
        THEN Some(arguments.args[1].ty) ELSE None

PathIdent(ty) == ty.segments[Len(ty.segments)].ident

RECURSIVE OtherShape(_), SupportedType(_, _)
\* Going down through containers with their element type and through
\* arrays, the type comes to a shape that is neither a plain path nor an
\* array.
OtherShape(ty) ==
    CASE ty.tag = "Array" -> OtherShape(ty.elem)
      [] ty.tag = "Path" /\ ~ty.qself ->
            /\ PathIdent(ty) \in {IdOption, IdVec}
            /\ TypeParam(ty) # None
            /\ OtherShape(TypeParam(ty)[1])
      [] OTHER -> TRUE

\* Every shape on the way down is supported: plain paths, containers with
\* their element type, arrays; a map or set collection only in a
\* declaration that is serde-only.
SupportedType(ty, st) ==
    CASE ty.tag = "Array" -> SupportedType(ty.elem, st)
      [] ty.tag = "Path" /\ ~ty.qself ->
            IF PathIdent(ty) \in {IdOption, IdVec}
            THEN TypeParam(ty) # None /\ SupportedType(TypeParam(ty)[1], st)
            ELSE PathIdent(ty) \in {IdHashMap, IdHashSet} => st = "Serde"
      [] OTHER -> FALSE

\* C14: map_ty returns a schema type for every supported type and fails for
\* every other one; for a type of a shape that is neither a plain path, a
\* container nor an array the failure is "Unsupported type", never a
\* schema type.
C14_UnsupportedShapeFails ==
    (pc = "returned" /\ call.fn = "map_ty") =>
        /\ SupportedType(call.ty, call.ser_type) <=> IsSchemaType(returned[1])
        /\ ~SupportedType(call.ty, call.ser_type) <=> IsPanic(returned[1])
        /\ OtherShape(call.ty) => returned[1] = Panic("Unsupported type")

\* C14 witness: map_ty has failed on a sequence of tuples.
C14_Witness ==
    /\ pc = "returned"
    /\ call.fn = "map_ty"
    /\ call.ty = TGeneric(IdVec, TTuple)
    /\ returned = Some(Panic("Unsupported type"))

\* The payload fields a variant declares, in whichever syntax.
PayloadCount(v) ==
    CASE v.fields.kind = "Unnamed" -> Len(v.fields.unnamed)
      [] v.fields.kind = "Named" -> Len(v.fields.named)
      [] OTHER -> 0

\* C15: mk_enum fails on every sum type with a variant that declares more
\* than one payload field, in tuple or in struct syntax, and accepts the
\* sum types whose variants all declare none or one.
C15_MultiFieldVariantFails ==
    (pc = "returned" /\ call.fn = "mk_enum") =>
        LET vs == call.input.variants
        IN  IF \E k \in 1..Len(vs) : PayloadCount(vs[k]) > 1
            THEN IsPanic(returned[1])
            ELSE (\A k \in 1..Len(vs) : vs[k].fields.kind # "Unnamed"
                                        \/ vs[k].fields.unnamed # <<>>)
                     => ~IsPanic(returned[1])

\* Going down through containers and arrays, the type comes to an optional
\* or sequence container written without its element type.
RECURSIVE MissingParam(_)
MissingParam(ty) ==
    CASE ty.tag = "Array" -> MissingParam(ty.elem)
      [] ty.tag = "Path" /\ ~ty.qself ->
            /\ PathIdent(ty) \in {IdOption, IdVec}
            /\ \/ TypeParam(ty) = None
               \/ MissingParam(TypeParam(ty)[1])
      [] OTHER -> FALSE

\* C16: map_ty fails, with one of the two messages of extract_generic_ty,
\* on every type that holds an optional or sequence container without its
\* element type, and returns no schema type for such a type.
C16_MissingTypeParameterFails ==
    (pc = "returned" /\ call.fn = "map_ty" /\ MissingParam(call.ty)) =>
        /\ returned[1] \in {Panic("Generic type must have a type parameter"),
                            Panic("Generic type must have angle bracketed arguments")}
        /\ ~IsSchemaType(returned[1])

\* C16 witness: map_ty has failed on Vec<Option<>> and on a bare Option.
C16_Witness ==
    /\ pc = "returned"
    /\ call.fn = "map_ty"
    /\ \/ /\ call.ty = TGeneric(IdVec, TNoTypeArg(IdOption, "AngleBracketed", <<>>))
          /\ returned = Some(Panic("Generic type must have a type parameter"))
       \/ /\ call.ty = TPath(IdOption)
          /\ returned = Some(Panic("Generic type must have angle bracketed arguments"))

\* The six primitive host types and their keywords in the schema language.
PrimitiveKeyword ==
    <<<<IdString, "Text">>, <<IdU32, "UInt32">>, <<IdU64, "UInt64">>,
      <<IdBool, "Bool">>, <<IdF32, "Float32">>, <<IdF64, "Float64">>>>

\* C17: map_ty maps each of the six primitive host types to the primitive
\* of its keyword, which is also its rendering, and to no record reference.
C17_PrimitivesMapped ==
    (pc = "returned" /\ call.fn = "map_ty") =>
        \A k \in 1..Len(PrimitiveKeyword) :
            call.ty = TPath(PrimitiveKeyword[k][1]) =>
                /\ returned[1] = Primitive(PrimitiveKeyword[k][2])
                /\ fmt(returned[1]) = PrimitiveKeyword[k][2]
                /\ returned[1].tag # "Struct"

\* C18: every field of an emitted record whose mapped type is Optional(T)
\* is written as the union block with the branches `value @0 :<T>;` and
\* `none @1 :Void;`, T rendered as it is elsewhere.
C18_OptionalRendering ==
    pc = "done" =>
        \A i \in 1..Len(file) :
            (StructAt(i) /\ FirstOfName(i)) =>
                LET d == structs[StructIndex(i)]
                IN  \A k \in 1..Len(d.fields) :
                        d.fields[k].ty.tag = "Optional" =>
                            \E j \in 1..Len(schema) :
                                schema[j] =
                                    "  " \o d.fields[k].name \o " @" \o ToString(k - 1)
                                    \o " :union {\n  value @0 :"
                                    \o fmt(d.fields[k].ty.inner)
                                    \o ";\n  none @1 :Void;\n};\n"

\* C18 witness: the field f0: Option<u32> has been written with the
\* branches `value @0 :UInt32;` and `none @1 :Void;`.
C18_Witness ==
    /\ pc = "done"
    /\ \E i \in 1..Len(file) :
          /\ StructAt(i)
          /\ file[i].fields.named # <<>>
          /\ file[i].fields.named[1].ty = TGeneric(IdOption, TPath(IdU32))
    /\ \E j \in 1..Len(schema) :
          schema[j] = "  f0 @0 :union {\n  value @0 :UInt32;\n  none @1 :Void;\n};\n"

IsEnumDecl(it)  == it.kind = "Enum" /\ IsDeclaration(it)
IsTraitDecl(it) == it.kind = "Trait" /\ IsDeclaration(it)

\* A piece of the schema text that opens a declaration.
IsOpener(piece) ==
    \E it \in {file[i] : i \in 1..Len(file)} :
        /\ it.kind # "Other"
        /\ piece \in {struct_open(TypeName(it)), enum_open(TypeName(it)),
                      interface_open(TypeName(it))}

\* The opening lines the claim asks for: the sum types in declaration
\* order, the records in resolver order, the interfaces.
ExpectedOpeners ==
    LET es == SelectSeq(file, IsEnumDecl)
        ts == SelectSeq(file, IsTraitDecl)
        ss == sort_deps(structs)
    IN  [k \in 1..Len(es) |->
            IF \E v \in 1..Len(es[k].variants) : HasPayload(es[k].variants[v])
            THEN struct_open(TypeName(es[k])) ELSE enum_open(TypeName(es[k]))]
        \o [k \in 1..Len(ss) |-> struct_open(ss[k].name)]
        \o [k \in 1..Len(ts) |-> interface_open(TypeName(ts[k]))]

\* C19: the schema text begins with the file-identifier line, and its
\* declarations open in this order: every sum type in declaration order,
\* then every record in resolver order, then every interface.
C19_EmissionOrder ==
    pc = "done" =>
        /\ schema[1] = "@0xabcdefabcdefabcdef;\n\n"
        /\ SelectSeq(Tail(schema), IsOpener) = ExpectedOpeners

\* C19 witness: a record was scanned before a sum type and the schema
\* written opens with the sum type, the record after it.
C19_Witness ==
    /\ pc = "done"
    /\ Len(file) = 2
    /\ file[1].kind = "Struct" /\ IsDeclaration(file[1])
    /\ IsEnumDecl(file[2])
    /\ schema[2] \in {enum_open("E"), struct_open("E")}
    /\ schema[Len(schema) - 1] = struct_open(TypeName(file[1]))

\* The segments of an identifier between its underscores, empty ones too.
RECURSIVE Split(_)
Split(s) ==
    IF s = <<>> THEN <<<<>>>>
    ELSE LET r == Split(Tail(s))
         IN  IF Head(s) = "_" THEN <<<<>>>> \o r
             ELSE <<<<Head(s)>> \o r[1]>> \o Tail(r)

NonEmptySegment(g) == g # <<>>

Capitalized(g) == <<to_ascii_uppercase(g[1])>> \o Tail(g)

\* The name the claim describes: the non-empty segments joined, each with
\* its first character in upper case, but the first segment of a member
\* name left as it is written.
CamelReference(s, is_type) ==
    LET segs == SelectSeq(Split(s), NonEmptySegment)
    IN  Str(Flatten([k \in 1..Len(segs) |->
                        IF k = 1 /\ ~is_type THEN segs[k] ELSE Capitalized(segs[k])]))

\* C20: to_camel_case returns, for every non-empty identifier, its
\* non-empty segments joined: in the type-name form each segment begins in
\* upper case, in the member-name form the first segment begins as it is
\* written and each later one in upper case; empty segments add no
\* character and no capital.
C20_Normalizer ==
    (pc = "returned" /\ call.fn = "to_camel_case") =>
        returned[1] = CamelReference(call.s, call.is_type)

\* The identifier id is the name of no struct or enum the scan registers.
Undeclared(id) ==
    \A u \in 1..Len(file) :
        (file[u].kind \in {"Struct", "Enum"} /\ IsDeclaration(file[u]))
            => TypeName(file[u]) # Str(id)

\* C21: a field whose type names, at the bottom of its containers, a type
\* that no declaration of the input carries is mapped to Struct(name)
\* there; the schema is written all the same, with no declaration under
\* that name, and with the referencing record's block exactly once, the
\* field typed by the name.
C21_UndeclaredReference ==
    pc = "done" =>
        \A i \in 1..Len(file) :
            (StructAt(i) /\ FirstOfName(i)) =>
                LET named == file[i].fields.named
                    d     == structs[StructIndex(i)]
                IN  \A k \in 1..Len(named) :
                        LET id == HostLeaf(named[k].ty)
                        IN  (id \in StructIdents /\ Undeclared(id)) =>
                                /\ LeafOf(d.fields[k].ty) = Struct(Str(id))
                                /\ \A j \in 1..Len(schema) :
                                      schema[j] # struct_open(Str(id))
                                /\ Cardinality({j \in 1..Len(schema) :
                                      schema[j] = struct_open(TypeName(file[i]))}) = 1
                                /\ HasBlock(<<struct_open(TypeName(file[i]))>>
                                       \o [f \in 1..Len(named) |->
                                             field_line(d.fields[f].name, f - 1,
                                                        fmt(d.fields[f].ty))]
                                       \o <<block_close>>)

\* C21 witness: the only declaration is a record with the field f0: A, and
\* the schema holds its block with `f0 @0 :A;`.
C21_Witness ==
    /\ pc = "done"
    /\ Len(file) = 1
    /\ StructAt(1)
    /\ file[1].ident = <<"b">>
    /\ Len(file[1].fields.named) = 1
    /\ file[1].fields.named[1].ty = TPath(<<"A">>)
    /\ schema = <<file_header, struct_open("B"), field_line("f0", 0, "A"), block_close>>

(***************************************************************************)
(* Further claims on the dependency resolver (SpecSort).                   *)
(***************************************************************************)
\* A Primitive or SerdeOnly type, directly or under List wrappers.
RECURSIVE NoReference(_)
NoReference(ty) ==
    CASE ty.tag \in {"Primitive", "SerdeOnly"} -> TRUE
      [] ty.tag = "List" -> NoReference(ty.inner)
      [] OTHER -> FALSE

NoReferenceTypes ==
    {Primitive("Text"), SerdeOnly("A"), SerdeOnly("B"),
     List(Primitive("Text")), List(SerdeOnly("A"))}

\* its with the type of field k of record i replaced by t.
WithFieldType(its, i, k, t) ==
    [its EXCEPT ![i].fields[k].ty = t]

NameSeq(ord) == [k \in 1..Len(ord) |-> ord[k].name]

\* C22: a field of Primitive or SerdeOnly type, directly or under List
\* wrappers, is no dependency edge, whatever name it carries: with such a
\* field replaced by any other such type sort_deps returns the records in
\* the same order.
C22_OnlyStructIsEdge ==
    pc = "sorted" =>
        \A i \in 1..Len(items) : \A k \in 1..Len(items[i].fields) :
            NoReference(items[i].fields[k].ty) =>
                \A t \in NoReferenceTypes :
                    NameSeq(sort_deps(WithFieldType(items, i, k, t))) = NameSeq(order)

\* C22 witness: sort_deps has returned for a record whose only field is
\* SerdeOnly under the name of a record declared after it, and that record
\* is not moved before it.
C22_Witness ==
    /\ pc = "sorted"
    /\ Len(items) = 2
    /\ items[2].name = "A"
    /\ Len(items[1].fields) = 1
    /\ items[1].fields[1].ty \in {SerdeOnly("A"), List(SerdeOnly("A"))}
    /\ NameSeq(order) = NameSeq(items)

\* The declared records the fields of s name, one per field at most, in
\* field order.
DepsInFieldOrder(s, its) ==
    Flatten([k \in 1..Len(s.fields) |->
               LET ds == ListTarget(s.fields[k].ty) \cap Declared(its)
               IN  IF ds = {} THEN <<>> ELSE <<CHOOSE d \in ds : TRUE>>])

RecordNamed(its, n) == its[CHOOSE i \in 1..Len(its) : its[i].name = n]

\* Depth-first traversal over names: DfsEach goes through the names ns in
\* order, DfsOne finishes a name after the names it depends on.  Both
\* return <<the names met, the names finished in order>>.
RECURSIVE DfsOne(_, _, _, _), DfsEach(_, _, _, _)
DfsOne(n, its, met, done) ==
    IF n \in met THEN <<met, done>>
    ELSE LET r == DfsEach(DepsInFieldOrder(RecordNamed(its, n), its), its,
                          met \cup {n}, done)
         IN  <<r[1], Append(r[2], n)>>
DfsEach(ns, its, met, done) ==
    IF ns = <<>> THEN <<met, done>>
    ELSE LET r == DfsOne(Head(ns), its, met, done)
         IN  DfsEach(Tail(ns), its, r[1], r[2])

PostOrder(its) == DfsEach(NameSeq(its), its, {}, <<>>)[2]

\* C23: for records with distinct names sort_deps returns the post-order
\* of the depth-first traversal from the records in insertion order along
\* each record's dependencies in field order; with no reference between
\* the records that is the insertion order.
C23_DepthFirstPostOrder ==
    (pc = "sorted" /\ DistinctNames(items)) =>
        /\ NameSeq(order) = PostOrder(items)
        /\ Edges(items, ListTarget) = {} => NameSeq(order) = NameSeq(items)

\* C23 witness: the first record names the third and then the second; the
\* order returned is third, second, first.
C23_Witness ==
    /\ pc = "sorted"
    /\ Len(items) = 3
    /\ DistinctNames(items)
    /\ Len(items[1].fields) = 2
    /\ items[1].fields[1].ty = Struct(items[3].name)
    /\ items[1].fields[2].ty = Struct(items[2].name)
    /\ NameSeq(order) = <<items[3].name, items[2].name, items[1].name>>

\* What a container built by Ctor around the mapped element is to be.
Around(Ctor(_), inner) == IF IsPanic(inner) THEN inner ELSE Ctor(inner)

\* C24: map_ty maps Option<T> to Optional(map_ty(T)), and Vec<T> and [T; N]
\* to List(map_ty(T)), at every nesting depth; where mapping T fails the
\* container fails the same way.  An array maps as the Vec of its element
\* type.
C24_ContainersMapStructurally ==
    (pc = "returned" /\ call.fn = "map_ty") =>
        \A t \in MapTypes(MaxDepth - 1) :
            LET inner == map_ty(t, call.ser_type)
            IN  /\ call.ty = TGeneric(IdOption, t) => returned[1] = Around(Optional, inner)
                /\ call.ty = TGeneric(IdVec, t) => returned[1] = Around(List, inner)
                /\ call.ty = TArray(t) =>
                      /\ returned[1] = Around(List, inner)
                      /\ returned[1] = map_ty(TGeneric(IdVec, t), call.ser_type)

\* C24 witness: Vec<Vec<u32>> has been mapped to List(List(UInt32)), and an
\* array of Option<String> to List(Optional(Text)).
C24_Witness ==
    /\ pc = "returned"
    /\ call.fn = "map_ty"
    /\ \/ /\ call.ty = TGeneric(IdVec, TGeneric(IdVec, TPath(IdU32)))
          /\ returned = Some(List(List(Primitive("UInt32"))))
       \/ /\ call.ty = TArray(TGeneric(IdOption, TPath(IdString)))
          /\ returned = Some(List(Optional(Primitive("Text"))))

\* C25: sort_deps returns for every list of records, and for records with
\* pairwise distinct names, with or without cycles and references to
\* undeclared names, what it returns is a permutation of the list: as long
\* as the list, every record of the list in it exactly once.
C25_Permutation ==
    /\ pc = "sort" => Len(sort_deps(items)) <= Len(items)
    /\ (pc = "sorted" /\ DistinctNames(items)) =>
          /\ Len(order) = Len(items)
          /\ \A i \in 1..Len(items) :
                Cardinality({k \in 1..Len(order) : order[k] = items[i]}) = 1

\* C25 witness: sort_deps has returned both records of a list that holds
\* a cycle and a reference to an undeclared name.
C25_Witness ==
    /\ pc = "sorted"
    /\ Len(items) = 2
    /\ Len(order) = 2
    /\ HasCycle(Edges(items, ListTarget))
    /\ \E i \in 1..Len(items) : \E k \in 1..Len(items[i].fields) :
          /\ items[i].fields[k].ty.tag = "Struct"
          /\ items[i].fields[k].ty.name \notin Declared(items)

\* Record i is the first of its name in its.
FirstNamed(its, i) == \A j \in 1..(i - 1) : its[j].name # its[i].name

\* The records of its that are the first of their name, in the order of its.
Firsts(its) ==
    LET keep == {i \in 1..Len(its) : FirstNamed(its, i)}
        nth(k) == CHOOSE i \in keep : Cardinality({j \in keep : j <= i}) = k
    IN  [k \in 1..Cardinality(keep) |-> its[nth(k)]]

\* C27: of the records that share a name sort_deps returns the first in
\* insertion order and no other: every record it returns is the first of
\* its name, every name of the input is returned once, and the records
\* after the first of a name change nothing, the order being the one
\* sort_deps returns for the input without them; it returns without an
\* error.
C27_FirstOfNameOnly ==
    pc = "sorted" =>
        /\ \A k \in 1..Len(order) :
              \E i \in 1..Len(items) : order[k] = items[i] /\ FirstNamed(items, i)
        /\ \A n \in Declared(items) :
              Cardinality({k \in 1..Len(order) : order[k].name = n}) = 1
        /\ order = sort_deps(Firsts(items))

\* C27 witness: a record names in a field a name that two later records
\* with different fields share; sort_deps has returned the first of the
\* two before the referencer and has not returned the second.
C27_Witness ==
    /\ pc = "sorted"
    /\ Len(items) = 3
    /\ items[1].fields # <<>>
    /\ items[1].fields[1].ty = Struct(items[2].name)
    /\ items[2].name = items[3].name
    /\ items[2].name # items[1].name
    /\ items[2] # items[3]
    /\ order = <<items[2], items[1]>>

\* ------------------------------------------------------------------
\* Further claims on the generator (Spec)
\* ------------------------------------------------------------------

\* C26: a field whose type names, at the bottom of its containers, a
\* record the input declares is mapped to a reference under the name the
\* record's declaration is emitted with, and the resolver's lookup by the
\* reference's name finds the record, whatever the casing and underscores
\* of the host identifier.
C26_ReferenceUsesDeclaredName ==
    pc = "done" =>
        \A i \in 1..Len(file), u \in 1..Len(file) :
            (StructAt(i) /\ StructAt(u)) =>
                \A k \in 1..Len(file[i].fields.named) :
                    HostLeaf(file[i].fields.named[k].ty) = file[u].ident =>
                        LET t == LeafOf(structs[StructIndex(i)].fields[k].ty)
                        IN  /\ t = Struct(TypeName(file[u]))
                            /\ find(structs, t.name) # None

\* ------------------------------------------------------------------
\* Further claims on the type mapper (SpecCall)
\* ------------------------------------------------------------------

\* The container of a qualified path written with its bare name.
Bare(ty) == TGeneric(PathIdent(ty), TypeParam(ty)[1])

\* C28: map_ty of an optional or sequence container written with a
\* module-qualified path is map_ty of the container written with its bare
\* name: the element type is the parameter of the segment that names the
\* container.
C28_QualifiedAsBare ==
    (pc = "returned" /\ call.fn = "map_ty_qualified") =>
        returned[1] = map_ty(Bare(call.ty), call.ser_type)

(***************************************************************************)
(* capnp_derive: the attribute macro.  Every expansion of #[capnp] maps    *)
(* its item, pushes the declaration onto the process-wide SCHEMA and       *)
(* writes the schema file from the whole of SCHEMA.  structs, enums and    *)
(* interfaces are SCHEMA.0, .1 and .2, schema is the text of the last      *)
(* write and disk the file; src is the items expanded so far, file those   *)
(* whose expansion returned, run the outcome of the last expansion.        *)
(***************************************************************************)
Enum(n) == [tag |-> "Enum", name |-> n]

\* SCHEMA.lock().unwrap().1.iter().any(|e| e.name == name)
is_enum(es, name) == \E i \in 1..Len(es) : es[i].name = name

derive_map_named(id, es) ==
    CASE id = "String" -> Primitive("Text")
      [] id = "u32" -> Primitive("UInt32")
      [] id = "u64" -> Primitive("UInt64")
      [] id = "bool" -> Primitive("Bool")
      [] OTHER -> IF is_enum(es, id) THEN Enum(id) ELSE Struct(id)

RECURSIVE derive_map_ty(_, _), extract_opt_ty(_, _), extract_list_ty(_, _)
derive_map_ty(ty, es) ==
    CASE ty.tag = "Path" /\ ~ty.qself ->
            LET id == Str(ty.segments[Len(ty.segments)].ident)
            IN  CASE id = "Option" ->
                        box_new(Optional(extract_opt_ty(ty, es)), extract_opt_ty(ty, es))
                  [] id = "Vec" ->
                        box_new(List(extract_list_ty(ty, es)), extract_list_ty(ty, es))
                  [] OTHER -> derive_map_named(id, es)
      [] ty.tag = "Array" ->
            box_new(List(derive_map_ty(ty.elem, es)), derive_map_ty(ty.elem, es))
      [] OTHER -> Panic("Unsupported type")

extract_opt_ty(p, es) ==
    LET arguments == p.segments[1].arguments
    IN  IF arguments.kind = "AngleBracketed"
        THEN IF arguments.args # <<>> /\ arguments.args[1].kind = "Type"
             THEN derive_map_ty(arguments.args[1].ty, es)
             ELSE Panic("Option must have a type parameter")
        ELSE Panic("Option must have angle bracketed arguments")

extract_list_ty(p, es) ==
    LET arguments == p.segments[1].arguments
    IN  IF arguments.kind = "AngleBracketed"
        THEN IF arguments.args # <<>> /\ arguments.args[1].kind = "Type"
             THEN derive_map_ty(arguments.args[1].ty, es)
             ELSE Panic("Vec must have a type parameter")
        ELSE Panic("Vec must have angle bracketed arguments")

derive_mk_struct(input, es) ==
    IF input.fields.kind # "Named"
    THEN Panic("CapnpDerive only supports named structs")
    ELSE LET named == input.fields.named
             tys   == [i \in 1..Len(named) |-> derive_map_ty(named[i].ty, es)]
         IN  IF FirstPanic(tys) # None THEN FirstPanic(tys)[1]
             ELSE [name   |-> Str(input.ident),
                   fields |-> [i \in 1..Len(named) |->
                                 [name |-> Str(named[i].ident),
                                  id   |-> i - 1,
                                  ty   |-> tys[i]]]]

derive_variant_ty(v, es) ==
    IF v.fields.kind = "Unnamed"
    THEN IF Len(v.fields.unnamed) = 1
         THEN Some(derive_map_ty(v.fields.unnamed[1], es))
         ELSE Some(Panic("Enum variants must have exactly one unnamed field"))
    ELSE None

derive_mk_enum(input, es) ==
    LET tys == [i \in 1..Len(input.variants) |-> derive_variant_ty(input.variants[i], es)]
        bad == {i \in 1..Len(tys) : PanicIn(tys[i])}
    IN  IF bad # {} THEN tys[CHOOSE i \in bad : \A j \in bad : i <= j][1]
        ELSE [name     |-> Str(input.ident),
              variants |-> [i \in 1..Len(input.variants) |->
                              [name |-> Str(input.variants[i].ident), ty |-> tys[i]]]]

derive_mk_method(method, es) ==
    LET args == IdentParams(method.inputs)
        tys  == [i \in 1..Len(args) |-> derive_map_ty(args[i].ty, es)]
        ret  == IF method.output = None THEN None
                ELSE Some(derive_map_ty(method.output[1], es))
    IN  IF FirstPanic(tys) # None THEN FirstPanic(tys)[1]
        ELSE IF PanicIn(ret) THEN ret[1]
        ELSE [name   |-> Str(method.ident),
              params |-> [i \in 1..Len(args) |->
                            [name |-> Str(args[i].pat.ident), ty |-> tys[i]]],
              ret    |-> ret]

derive_mk_interface(input, es) ==
    LET fns == FnItems(input.items)
        ms  == [i \in 1..Len(fns) |-> derive_mk_method(fns[i], es)]
    IN  IF FirstPanic(ms) # None THEN FirstPanic(ms)[1]
        ELSE [name |-> Str(input.ident), methods |-> ms]

\* write(): the header, the enums, the structs in the order of sort_deps
\* and the interfaces, every method with the id 0 of mk_interface; the
\* SchemaWriter impls write the text that generate_schema writes.
write(ss, es, is) == schema_text(ss, es, is)

\* The items the macro is put on.
MaxInvocations == 3

MacroTypes ==
    {TPath(IdU32), TPath(<<"B">>), TPath(<<"E">>),
     TGeneric(IdVec, TPath(<<"B">>)), TTuple}

MacroStructs ==
    {[kind |-> "Struct", attrs |-> <<AttrCapnp>>, ident |-> id,
      fields |-> [kind |-> "Named", named |-> fs]] :
        id \in {<<"A">>, <<"B">>},
        fs \in {<<>>} \cup {<<[ident |-> FieldIdents[1], attrs |-> <<>>, ty |-> t]>> :
                              t \in MacroTypes}}

MacroEnums ==
    {[kind |-> "Enum", attrs |-> <<AttrCapnp>>, ident |-> <<"E">>, variants |-> vs] :
        vs \in {<<UnitVariant(1)>>,
                <<UnitVariant(1), TupleVariant(2, <<TPath(IdU32)>>)>>}}

MacroTraits ==
    {[kind |-> "Trait", attrs |-> <<AttrCapnp>>, ident |-> <<"I">>,
      items |-> <<[kind |-> "Fn", ident |-> MethodIdents[1],
                   inputs |-> <<[kind |-> "Typed",
                                 pat |-> [kind |-> "Ident", ident |-> ParamIdents[1]],
                                 ty |-> TPath(<<"E">>)]>>,
                   output |-> Some(TPath(<<"A">>))]>>]}

InitMacro ==
    /\ pc = "expand"
    /\ file = <<>>
    /\ structs = <<>>
    /\ enums = <<>>
    /\ interfaces = <<>>
    /\ schema = <<>>
    /\ disk = None
    /\ run = "first"
    /\ src = <<>>
    /\ SortIdle
    /\ AttrIdle
    /\ CallIdle

\* One expansion of the macro on item, decl being what mk_* returns for
\* it: a panic in mk_* unwinds before the push; otherwise the declaration
\* is pushed, write() writes the file from the whole of SCHEMA and runs
\* the schema compiler, whose failure unwinds after the push and the
\* write.
Expand(item, decl) ==
    /\ pc = "expand"
    /\ Len(src) < MaxInvocations
    /\ src' = Append(src, item)
    /\ IF IsPanic(decl)
       THEN /\ run' = "panic"
            /\ UNCHANGED <<file, structs, enums, interfaces, schema, disk>>
       ELSE /\ structs' = IF item.kind = "Struct" THEN Append(structs, decl) ELSE structs
            /\ enums' = IF item.kind = "Enum" THEN Append(enums, decl) ELSE enums
            /\ interfaces' = IF item.kind = "Trait" THEN Append(interfaces, decl)
                             ELSE interfaces
            /\ schema' = write(structs', enums', interfaces')
            /\ disk' = Some(schema')
            /\ \E compiled \in BOOLEAN :
                  IF compiled
                  THEN run' = "ok" /\ file' = Append(file, item)
                  ELSE run' = "panic" /\ file' = file
    /\ UNCHANGED <<pc, sortVars, attrVars, callVars>>

ExpandStruct == \E item \in MacroStructs : Expand(item, derive_mk_struct(item, enums))
ExpandEnum   == \E item \in MacroEnums : Expand(item, derive_mk_enum(item, enums))
ExpandTrait  == \E item \in MacroTraits : Expand(item, derive_mk_interface(item, enums))

\* _ => panic!("capnp attribute only supports structs, enums, and traits")
ExpandOther ==
    Expand(OtherItem, Panic("capnp attribute only supports structs, enums, and traits"))

NextMacro == ExpandStruct \/ ExpandEnum \/ ExpandTrait \/ ExpandOther

SpecMacro == InitMacro /\ [][NextMacro]_vars

\* The items of the kind among those whose expansion returned, in order.
ReturnedOfKind(kind) == SelectSeq(file, LAMBDA it : it.kind = kind)

\* The names of the declarations ds, in order.
NamesOf(ds) == [i \in 1..Len(ds) |-> ds[i].name]

\* The identifiers of the items its, in order, as names.
IdentsOf(its) == [i \in 1..Len(its) |-> Str(its[i].ident)]

\* C29: after the k-th expansion of the macro that returned, SCHEMA holds
\* the declarations of exactly these k items, in the order of the
\* expansions, and the file written is the header followed by exactly
\* their k blocks.
C29_SharedStateAccumulates ==
    (pc = "expand" /\ run = "ok") =>
        /\ NamesOf(structs) = IdentsOf(ReturnedOfKind("Struct"))
        /\ NamesOf(enums) = IdentsOf(ReturnedOfKind("Enum"))
        /\ NamesOf(interfaces) = IdentsOf(ReturnedOfKind("Trait"))
        /\ disk = Some(schema)
        /\ Cardinality({j \in 1..Len(schema) : schema[j] = block_close}) = Len(file)
        /\ \A i \in 1..Len(structs) : HasBlock(emit_struct(structs[i]))
        /\ \A i \in 1..Len(enums) : HasBlock(emit_enum(enums[i]))
        /\ \A i \in 1..Len(interfaces) : HasBlock(emit_interface(interfaces[i]))

====
